---- MODULE Spec2Model ----
(***************************************************************************)
(* The real-time data hook of the dashboard (useRealTimeData), its data    *)
(* generators and the browser collaborators it drives: React state and     *)
(* effects, setInterval / clearInterval, localStorage and the clock.       *)
(*                                                                         *)
(* The hook's state is kept as one record `s` while a handler runs; every  *)
(* handler of the source is an operator from records to records, so that   *)
(* a handler which calls other handlers is their composition.  An action   *)
(* of the state machine runs one whole handler and commits the record.     *)
(***************************************************************************)
EXTENDS Integers, Sequences, FiniteSets, TLC

\* ------------------------------------------------------------------ bounds
\* Number of distinct streams the random source can produce in a run.
MaxSeed == 1
\* Number of events of a run after the mount: handler calls by the
\* component's user and update intervals that pass.  It bounds updateCount,
\* the clock and the interval handles handed out.
MaxEvents == 2
\* The calendar month (0 = Jan) the session runs in.
SessionMonth == 4

\* ------------------------------------------------------- program constants
DefaultUpdateInterval == 5000
StaleWindow == 3600000
DefaultMonths == 6
HoursPerDay == 24
\* The clock reading at the first render, in ms from the model's origin.
StartTime == 7200000

NoError == "null"
GenerationError == "Failed to generate dashboard data"

\* a % b of the source language: the remainder of the division truncated
\* towards zero, which has the sign of a.
Remainder(a, b) == IF a >= 0 THEN a % b ELSE 0 - ((0 - a) % b)

\* ------------------------------------------------------------ random source
\* Math.random(): the k-th draw of stream `seed`, in thousandths of [0, 1).
Random(seed, k) == (seed * 379 + k * 617) % 1000

\* Math.floor(Math.random() * range) + base
RandomInt(seed, k, range, base) == ((Random(seed, k) * range) \div 1000) + base

\* (Math.random() * range + base).toFixed(1): a decimal string with one
\* fraction digit, kept as its number of tenths (rounded to nearest).
RandomFixed1(seed, k, range, base) ==
    <<"fixed1", ((Random(seed, k) * range * 10 + 500) \div 1000) + base * 10>>

\* --------------------------------------------------------------- generators
monthNames ==
    <<"Jan", "Feb", "Mar", "Apr", "May", "Jun",
      "Jul", "Aug", "Sep", "Oct", "Nov", "Dec">>

\* generateSalesData(months): `months` records ending at the current month.
\* monthNames is indexed from 0 in the source, from 1 here; an index outside
\* 0..11 reads `undefined`.
MonthLabel(monthIndex) ==
    IF monthIndex \in 0..11 THEN monthNames[monthIndex + 1] ELSE "undefined"

generateSalesData(months, currentMonth, seed) ==
    [ i \in 1..months |->
        [ month      |-> MonthLabel(Remainder(
                            currentMonth - months + (i - 1) + 1 + 12, 12)),
          revenue    |-> RandomInt(seed, 4 * (i - 1), 50000, 30000),
          orders     |-> RandomInt(seed, 4 * (i - 1) + 1, 500, 200),
          customers  |-> RandomInt(seed, 4 * (i - 1) + 2, 300, 150),
          conversion |-> RandomFixed1(seed, 4 * (i - 1) + 3, 5, 2) ] ]

\* `${i.toString().padStart(2, '0')}:00`
HourLabel(i) == <<i \div 10, i % 10, ":00">>

generateTrafficData(seed) ==
    [ i \in 1..HoursPerDay |->
        [ time       |-> HourLabel(i - 1),
          visitors   |-> RandomInt(seed, 100 + 3 * (i - 1), 1000, 100),
          pageViews  |-> RandomInt(seed, 100 + 3 * (i - 1) + 1, 3000, 500),
          bounceRate |-> RandomFixed1(seed, 100 + 3 * (i - 1) + 2, 30, 20) ] ]

categories ==
    << [name |-> "Electronics",   color |-> "#8884d8"],
       [name |-> "Clothing",      color |-> "#82ca9d"],
       [name |-> "Books",         color |-> "#ffc658"],
       [name |-> "Home & Garden", color |-> "#ff7300"],
       [name |-> "Sports",        color |-> "#00ff88"] >>

generateProductData(seed) ==
    [ i \in 1..Len(categories) |->
        [ name  |-> categories[i].name,
          color |-> categories[i].color,
          value |-> RandomInt(seed, 200 + i, 40, 10) ] ]

kpis ==
    << [title |-> "Total Revenue",   icon |-> "DollarSign",
        color |-> "text-green-600",  bgColor |-> "bg-green-100"],
       [title |-> "Total Orders",    icon |-> "ShoppingCart",
        color |-> "text-blue-600",   bgColor |-> "bg-blue-100"],
       [title |-> "Customers",       icon |-> "Users",
        color |-> "text-purple-600", bgColor |-> "bg-purple-100"],
       [title |-> "Conversion Rate", icon |-> "TrendingUp",
        color |-> "text-orange-600", bgColor |-> "bg-orange-100"] >>

\* The change delta of KPI `index` (0-based): its sign and its tenths.
KPIChange(index, seed) ==
    CASE index = 0 -> <<"+", RandomFixed1(seed, 301, 15, 5)[2], "%">>
      [] index = 1 -> <<"+", RandomFixed1(seed, 303, 20, 5)[2], "%">>
      [] index = 2 -> <<"+", RandomFixed1(seed, 305, 25, 10)[2], "%">>
      [] index = 3 -> IF Random(seed, 307) > 500
                        THEN <<"+", RandomFixed1(seed, 308, 3, 0)[2], "%">>
                        ELSE <<"-", RandomFixed1(seed, 308, 2, 0)[2], "%">>
      [] OTHER     -> <<"", 0, "%">>

KPIValue(index, seed) ==
    CASE index = 0 -> <<"$", RandomInt(seed, 300, 500, 200), "K">>
      [] index = 1 -> <<"", RandomInt(seed, 302, 5000, 2000), "">>
      [] index = 2 -> <<"", RandomInt(seed, 304, 2000, 1000), "">>
      [] index = 3 -> <<"", RandomFixed1(seed, 306, 5, 2)[2], "%">>
      [] OTHER     -> <<"", 0, "">>

generateKPIData(seed) ==
    [ i \in 1..Len(kpis) |->
        [ title  |-> kpis[i].title,
          icon   |-> kpis[i].icon,
          color  |-> kpis[i].color,
          bgColor |-> kpis[i].bgColor,
          value  |-> KPIValue(i - 1, seed),
          change |-> KPIChange(i - 1, seed),
          trend  |-> IF KPIChange(i - 1, seed)[1] = "+" THEN "up" ELSE "down" ] ]

\* ------------------------------------------------------------------- state
VARIABLES
    \* options of the hook (fixed for the life of the component)
    autoStart, enablePersistence,
    \* useState cells
    salesData, trafficData, productData, kpiData,
    isRealTime, lastUpdated, updateCount, isLoading, error,
    \* the value of isRealTime captured by the closures of the last render
    renderedIsRealTime,
    \* useRef cells
    intervalRef, mountedRef,
    \* React: "rendered" (first render done, effects not yet run),
    \* "mounted", "unmounted"
    phase,
    \* the browser: active interval handles, the next handle, the storage
    \* slot, whether storage calls raise, the clock and the calendar month
    timers, nextTimerId, storage, storageMode, now, currentMonth,
    \* whether the handler that ran last ended by raising, and the value the
    \* storage last accepted from setItem (history: it is never read by the hook)
    raised, saved,
    \* the handler that ran last, with its inputs, and the number of events
    \* (calls and elapsed intervals) so far
    lastOp, events,
    \* the export helpers: the argument of the last call and, in order, the
    \* files the browser was made to download
    exportArg, downloads,
    \* the call of a helper that keeps no state: its name, its arguments
    \* and, once it has returned, its result
    call

vars ==
    << autoStart, enablePersistence, salesData, trafficData, productData,
       kpiData, isRealTime, lastUpdated, updateCount, isLoading, error,
       renderedIsRealTime, intervalRef, mountedRef, phase, timers,
       nextTimerId, storage, storageMode, now, currentMonth, raised, saved,
       lastOp, events, exportArg, downloads, call >>

\* The cells a handler can read or write, as one record.
Cur ==
    [ salesData |-> salesData, trafficData |-> trafficData,
      productData |-> productData, kpiData |-> kpiData,
      isRealTime |-> isRealTime, lastUpdated |-> lastUpdated,
      updateCount |-> updateCount, isLoading |-> isLoading, error |-> error,
      renderedIsRealTime |-> renderedIsRealTime,
      intervalRef |-> intervalRef, mountedRef |-> mountedRef, phase |-> phase,
      timers |-> timers, nextTimerId |-> nextTimerId, storage |-> storage,
      now |-> now, raised |-> FALSE, saved |-> saved ]

Commit(s) ==
    /\ salesData' = s.salesData /\ trafficData' = s.trafficData
    /\ productData' = s.productData /\ kpiData' = s.kpiData
    /\ isRealTime' = s.isRealTime /\ lastUpdated' = s.lastUpdated
    /\ updateCount' = s.updateCount /\ isLoading' = s.isLoading
    /\ error' = s.error /\ renderedIsRealTime' = s.renderedIsRealTime
    /\ intervalRef' = s.intervalRef /\ mountedRef' = s.mountedRef
    /\ phase' = s.phase /\ timers' = s.timers
    /\ nextTimerId' = s.nextTimerId /\ storage' = s.storage
    /\ now' = s.now /\ raised' = s.raised /\ saved' = s.saved
    /\ UNCHANGED << autoStart, enablePersistence, storageMode, currentMonth,
                    exportArg, downloads, call >>

\* ------------------------------------------------------ React and browser
\* A useState setter.  React drops the update of a component that has been
\* unmounted: its state is never rendered again.
setState(s, cell, value) ==
    IF s.phase = "unmounted" THEN s ELSE [s EXCEPT ![cell] = value]

\* setInterval(callback, updateInterval): a fresh handle becomes active.
setInterval(s) ==
    [s EXCEPT !.timers = @ \cup {s.nextTimerId}, !.nextTimerId = @ + 1]

\* clearInterval(handle)
clearInterval(s, handle) == [s EXCEPT !.timers = @ \ {handle}]

\* new Date(): the clock, in ms.  A handler runs without the clock moving.
Date(s) == s.now

\* date.toISOString() and new Date(isoString): an ISO-8601 string carries
\* the instant to the millisecond; any other text parses to Invalid Date.
toISOString(t) == <<"iso", t>>
Undefined == <<"undefined">>
InvalidDate == <<"invalid">>
ParseDate(str) ==
    IF Len(str) = 2 /\ str[1] = "iso" THEN <<"date", str[2]>> ELSE InvalidDate

\* JSON.stringify(value) and JSON.parse(text).  Text that is not JSON makes
\* JSON.parse raise.
JSONstringify(value) == <<"json", value>>
IsJSON(text) == text[1] = "json"
JSONparse(text) == text[2]
NotJSON == <<"raw", "not json">>

\* object[key]: a property the object does not have reads `undefined`.
Get(object, key) == IF key \in DOMAIN object THEN object[key] ELSE Undefined

\* An exception leaves the code that is running, until a catch block ends it.
Throw(s) == [s EXCEPT !.raised = TRUE]
Catch(s) == [s EXCEPT !.raised = FALSE]

\* localStorage: the slot of the key 'dashboardData' is absent or holds a text.
\* storageMode "ok": no call raises; "quota": setItem raises;
\* "broken": every call raises.
Absent == <<"absent">>
Item(text) == <<"item", text>>
StorageModes == {"ok", "quota", "broken"}
getItemRaises == storageMode = "broken"
setItemRaises == storageMode \in {"quota", "broken"}
removeItemRaises == storageMode = "broken"

\* ---------------------------------------------------------------- handlers
\* No snapshot has been accepted by the storage since the slot was last
\* removed or the page first opened.
NoSnapshot == [none |-> TRUE]

\* localStorage.setItem('dashboardData', JSON.stringify(data))
setItem(s, data) ==
    IF setItemRaises THEN Throw(s)
    ELSE [s EXCEPT !.storage = Item(JSONstringify(data)), !.saved = data]

persistData_NoCatch(s, data) == setItem(s, data)

\* persistData(data): localStorage.setItem inside try / catch.
persistData(s, data) ==
    LET try == setItem(s, data)
    IN  IF try.raised THEN Catch(try) ELSE try

\* The names of the four generators, in call order; `fail` names the one
\* that raises, "none" when all four return.
Generators == <<"sales", "traffic", "products", "kpis">>
Failures == {"none"} \cup {Generators[i] : i \in 1..Len(Generators)}

applyGenerated_AlwaysPersists(s, seed) ==
    LET newSalesData == generateSalesData(DefaultMonths, currentMonth, seed)
        newTrafficData == generateTrafficData(seed)
        newProductData == generateProductData(seed)
        newKpiData == generateKPIData(seed)
        s1 == setState(setState(setState(setState(setState(setState(s,
                  "salesData", newSalesData),
                  "trafficData", newTrafficData),
                  "productData", newProductData),
                  "kpiData", newKpiData),
                  "lastUpdated", Date(s)),
                  "updateCount", s.updateCount + 1)
    IN  persistData(s1,
            [ sales |-> newSalesData, traffic |-> newTrafficData,
              products |-> newProductData, kpis |-> newKpiData,
              lastUpdated |-> toISOString(Date(s1)) ])

\* generateAllData, the `if (mountedRef.current)` block: the six setters
\* and the write-through of what the generators returned for `seed`.
applyGenerated(s, seed) ==
    LET newSalesData == generateSalesData(DefaultMonths, currentMonth, seed)
        newTrafficData == generateTrafficData(seed)
        newProductData == generateProductData(seed)
        newKpiData == generateKPIData(seed)
        s1 == setState(setState(setState(setState(setState(setState(s,
                  "salesData", newSalesData),
                  "trafficData", newTrafficData),
                  "productData", newProductData),
                  "kpiData", newKpiData),
                  "lastUpdated", Date(s)),
                  "updateCount", s.updateCount + 1)
    IN  IF enablePersistence
        THEN persistData(s1,
                [ sales |-> newSalesData, traffic |-> newTrafficData,
                  products |-> newProductData, kpis |-> newKpiData,
                  lastUpdated |-> toISOString(Date(s1)) ])
        ELSE s1

\* generateAllData, the finally block.
refreshFinally(s) ==
    IF s.mountedRef THEN setState(s, "isLoading", FALSE) ELSE s

generateAllData_KeepsError(s, seed, fail) ==
    LET s1 == setState(s, "isLoading", TRUE)
    IN  refreshFinally(
            IF fail # "none" THEN setState(s1, "error", GenerationError)
            ELSE IF s1.mountedRef THEN applyGenerated(s1, seed)
            ELSE s1)

generateAllData_SetsAsItGoes(s, seed, fail) ==
    LET s1 == setState(setState(s, "isLoading", TRUE), "error", NoError)
        s2 == IF fail \in {"traffic", "products", "kpis"} /\ s1.mountedRef
                THEN setState(s1, "salesData",
                        generateSalesData(DefaultMonths, currentMonth, seed))
                ELSE s1
    IN  refreshFinally(
            IF fail # "none" THEN setState(s2, "error", GenerationError)
            ELSE IF s1.mountedRef THEN applyGenerated(s1, seed)
            ELSE s1)

\* generateAllData(): `seed` is the stream the random source produces.  All
\* four generators run before any setter, so one that raises leaves the
\* try block with nothing set but isLoading and error.
generateAllData(s, seed, fail) ==
    LET s1 == setState(setState(s, "isLoading", TRUE), "error", NoError)
        try == IF fail # "none" THEN Throw(s1)
               ELSE IF s1.mountedRef THEN applyGenerated(s1, seed)
               ELSE s1
    IN  refreshFinally(
            IF try.raised THEN setState(Catch(try), "error", GenerationError)
            ELSE try)

\* value || []
OrEmpty(value) == IF value = Undefined THEN << >> ELSE value

adoptPersisted_CountsAsUpdate(s, data, lastUpdate) ==
    setState(setState(setState(setState(setState(setState(s,
        "salesData", OrEmpty(Get(data, "sales"))),
        "trafficData", OrEmpty(Get(data, "traffic"))),
        "productData", OrEmpty(Get(data, "products"))),
        "kpiData", OrEmpty(Get(data, "kpis"))),
        "lastUpdated", lastUpdate[2]),
        "updateCount", s.updateCount + 1)

\* loadPersistedData, the `if` block: the five setters.
adoptPersisted(s, data, lastUpdate) ==
    setState(setState(setState(setState(setState(s,
        "salesData", OrEmpty(Get(data, "sales"))),
        "trafficData", OrEmpty(Get(data, "traffic"))),
        "productData", OrEmpty(Get(data, "products"))),
        "kpiData", OrEmpty(Get(data, "kpis"))),
        "lastUpdated", lastUpdate[2])

loadPersistedData_FreshStamp(s) ==
    IF getItemRaises \/ s.storage = Absent THEN <<s, FALSE>>
    ELSE IF ~IsJSON(s.storage[2]) THEN <<s, FALSE>>
    ELSE
        LET data == JSONparse(s.storage[2])
            lastUpdate == ParseDate(Get(data, "lastUpdated"))
        IN  IF lastUpdate = InvalidDate THEN <<s, FALSE>>
            ELSE IF Date(s) - lastUpdate[2] < StaleWindow /\ s.mountedRef
            THEN << adoptPersisted(s, data, <<"date", Date(s)>>), TRUE >>
            ELSE <<s, FALSE>>

loadPersistedData_NoCutoff(s) ==
    IF getItemRaises \/ s.storage = Absent THEN <<s, FALSE>>
    ELSE IF ~IsJSON(s.storage[2]) THEN <<s, FALSE>>
    ELSE
        LET data == JSONparse(s.storage[2])
            lastUpdate == ParseDate(Get(data, "lastUpdated"))
        IN  IF lastUpdate = InvalidDate THEN <<s, FALSE>>
            ELSE IF s.mountedRef
            THEN << adoptPersisted(s, data, lastUpdate), TRUE >>
            ELSE <<s, FALSE>>

\* loadPersistedData(): << state, returned value >>.  getItem or JSON.parse
\* raising ends in the catch block; an Invalid Date makes timeDiff NaN,
\* which is not less than the window.
loadPersistedData(s) ==
    IF getItemRaises \/ s.storage = Absent THEN <<s, FALSE>>
    ELSE IF ~IsJSON(s.storage[2]) THEN <<s, FALSE>>
    ELSE
        LET data == JSONparse(s.storage[2])
            lastUpdate == ParseDate(Get(data, "lastUpdated"))
        IN  IF lastUpdate = InvalidDate THEN <<s, FALSE>>
            ELSE IF Date(s) - lastUpdate[2] < StaleWindow /\ s.mountedRef
            THEN << adoptPersisted(s, data, lastUpdate), TRUE >>
            ELSE <<s, FALSE>>

startRealTime_FlagUnset(s) ==
    LET s1 == IF s.intervalRef # 0 THEN clearInterval(s, s.intervalRef) ELSE s
    IN  [setInterval(s1) EXCEPT !.intervalRef = s1.nextTimerId]

startRealTime_NoClear(s) ==
    LET s2 == setState(s, "isRealTime", TRUE)
    IN  [setInterval(s2) EXCEPT !.intervalRef = s2.nextTimerId]

\* startRealTime()
startRealTime(s) ==
    LET s1 == IF s.intervalRef # 0 THEN clearInterval(s, s.intervalRef) ELSE s
        s2 == setState(s1, "isRealTime", TRUE)
    IN  [setInterval(s2) EXCEPT !.intervalRef = s2.nextTimerId]

stopRealTime_KeepsTimer(s) ==
    setState([s EXCEPT !.intervalRef = 0], "isRealTime", FALSE)

\* stopRealTime()
stopRealTime(s) ==
    LET s1 == IF s.intervalRef # 0
                THEN [clearInterval(s, s.intervalRef) EXCEPT !.intervalRef = 0]
                ELSE s
    IN  setState(s1, "isRealTime", FALSE)

\* toggleRealTime(): reads the isRealTime of the render that created it.
toggleRealTime(s) ==
    IF s.renderedIsRealTime THEN stopRealTime(s) ELSE startRealTime(s)

\* refreshData()
refreshData(s, seed, fail) == generateAllData(s, seed, fail)

clearData_StopsRealTime(s) ==
    LET s1 == setState(setState(setState(setState(setState(s,
                  "salesData", << >>),
                  "trafficData", << >>),
                  "productData", << >>),
                  "kpiData", << >>),
                  "updateCount", 0)
        s2 == IF enablePersistence /\ ~removeItemRaises
                THEN [s1 EXCEPT !.storage = Absent, !.saved = NoSnapshot]
                ELSE s1
    IN  stopRealTime(s2)

clearData_KeepsSlot(s) ==
    setState(setState(setState(setState(setState(s,
        "salesData", << >>),
        "trafficData", << >>),
        "productData", << >>),
        "kpiData", << >>),
        "updateCount", 0)

clearData_AlwaysRemoves(s) ==
    LET s1 == setState(setState(setState(setState(setState(s,
                  "salesData", << >>),
                  "trafficData", << >>),
                  "productData", << >>),
                  "kpiData", << >>),
                  "updateCount", 0)
    IN  IF ~removeItemRaises
        THEN [s1 EXCEPT !.storage = Absent, !.saved = NoSnapshot]
        ELSE s1

\* clearData()
clearData(s) ==
    LET s1 == setState(setState(setState(setState(setState(s,
                  "salesData", << >>),
                  "trafficData", << >>),
                  "productData", << >>),
                  "kpiData", << >>),
                  "updateCount", 0)
    IN  IF enablePersistence /\ ~removeItemRaises
        THEN [s1 EXCEPT !.storage = Absent, !.saved = NoSnapshot]
        ELSE s1

updateDataset_DefaultsToSales(s, datasetName, newData) ==
    LET s1 == CASE datasetName = "traffic"  -> setState(s, "trafficData", newData)
                [] datasetName = "products" -> setState(s, "productData", newData)
                [] datasetName = "kpis"     -> setState(s, "kpiData", newData)
                [] OTHER                    -> setState(s, "salesData", newData)
    IN  setState(s1, "lastUpdated", Date(s1))

updateDataset_CountsAsUpdate(s, datasetName, newData) ==
    LET s1 == CASE datasetName = "sales"    -> setState(s, "salesData", newData)
                [] datasetName = "traffic"  -> setState(s, "trafficData", newData)
                [] datasetName = "products" -> setState(s, "productData", newData)
                [] datasetName = "kpis"     -> setState(s, "kpiData", newData)
                [] OTHER                    -> s
    IN  setState(setState(s1, "lastUpdated", Date(s1)),
                 "updateCount", s1.updateCount + 1)

\* updateDataset(datasetName, newData)
updateDataset(s, datasetName, newData) ==
    LET s1 == CASE datasetName = "sales"    -> setState(s, "salesData", newData)
                [] datasetName = "traffic"  -> setState(s, "trafficData", newData)
                [] datasetName = "products" -> setState(s, "productData", newData)
                [] datasetName = "kpis"     -> setState(s, "kpiData", newData)
                [] OTHER                    -> s
    IN  setState(s1, "lastUpdated", Date(s1))

intervalCallback_SkipsWhenLive(s, seed, fail) ==
    IF s.mountedRef THEN s ELSE generateAllData(s, seed, fail)

\* The callback given to setInterval.
intervalCallback(s, seed, fail) ==
    IF s.mountedRef THEN generateAllData(s, seed, fail) ELSE s

\* The mount effect's first step: `dataLoaded`, false unless the load is
\* enabled and returns true.
mountLoad(s) ==
    IF enablePersistence THEN loadPersistedData(s) ELSE <<s, FALSE>>

mountEffect_AlwaysGenerates(s, seed, fail) ==
    LET loaded == mountLoad(s)
        s2 == generateAllData(loaded[1], seed, fail)
    IN  IF autoStart /\ s2.renderedIsRealTime THEN startRealTime(s2) ELSE s2

\* useEffect(..., []): the body run on mount.
mountEffect(s, seed, fail) ==
    LET loaded == mountLoad(s)
        s1 == loaded[1]
        dataLoaded == loaded[2]
        s2 == IF ~dataLoaded THEN generateAllData(s1, seed, fail) ELSE s1
    IN  IF autoStart /\ s2.renderedIsRealTime THEN startRealTime(s2) ELSE s2

mountCleanup_StaysLive(s) ==
    IF s.intervalRef # 0 THEN clearInterval(s, s.intervalRef) ELSE s

mountCleanup_KeepsTimer(s) == [s EXCEPT !.mountedRef = FALSE]

\* The cleanup the mount effect returns, run on unmount.
mountCleanup(s) ==
    LET s1 == [s EXCEPT !.mountedRef = FALSE]
    IN  IF s1.intervalRef # 0 THEN clearInterval(s1, s1.intervalRef) ELSE s1

\* useEffect(..., [isRealTime, startRealTime, stopRealTime])
realTimeEffect(s) ==
    IF s.renderedIsRealTime THEN startRealTime(s) ELSE stopRealTime(s)

\* ------------------------------------------------------------ state machine
Seeds == 1..MaxSeed

\* What an earlier session left in the slot: nothing, text that is not JSON,
\* or the snapshot of its last successful refresh, by now `age` ms old.
EarlierSeed == MaxSeed + 1
SlotAges == {DefaultUpdateInterval, StaleWindow, StaleWindow + 1}
EarlierSnapshot(age) ==
    [ sales |-> generateSalesData(DefaultMonths, SessionMonth, EarlierSeed),
      traffic |-> generateTrafficData(EarlierSeed),
      products |-> generateProductData(EarlierSeed),
      kpis |-> generateKPIData(EarlierSeed),
      lastUpdated |-> toISOString(StartTime - age) ]
InitialSlots ==
    {Absent, Item(NotJSON)}
        \cup {Item(JSONstringify(EarlierSnapshot(age))) : age \in SlotAges}

\* The arguments updateDataset is called with.
DatasetNames == {"sales", "traffic", "products", "kpis", "bogus"}
DatasetInputs == {<< [label |-> "custom", value |-> 1] >>}

\* The record of a handler call: when its generators returned (ok), the
\* stream they drew from; what the error and isRealTime cells, the
\* interval handle and the slot held when it was called; and, for the
\* mount, the mount effect's `dataLoaded`.
Op(op, seed, fail, name) ==
    [ op |-> op, ok |-> fail = "none",
      seed |-> IF fail = "none" THEN seed ELSE 0, name |-> name,
      errorBefore |-> error, realTimeBefore |-> isRealTime,
      timerBefore |-> intervalRef # 0,
      slotBefore |-> storage # Absent,
      loaded |-> op = "mount" /\ mountLoad(Cur)[2] ]

\* The state after the first render of a page that finds one of `slots` in
\* the storage: useState and useRef initial values.
FirstRender(slots) ==
    /\ autoStart \in BOOLEAN
    /\ enablePersistence \in BOOLEAN
    /\ salesData = << >> /\ trafficData = << >>
    /\ productData = << >> /\ kpiData = << >>
    /\ isRealTime = autoStart
    /\ renderedIsRealTime = autoStart
    /\ lastUpdated = StartTime
    /\ updateCount = 0
    /\ isLoading = TRUE
    /\ error = NoError
    /\ intervalRef = 0
    /\ mountedRef = TRUE
    /\ phase = "rendered"
    /\ timers = {}
    /\ nextTimerId = 1
    /\ storage \in slots
    /\ storageMode \in StorageModes
    /\ now = StartTime
    /\ raised = FALSE
    /\ saved = NoSnapshot
    /\ lastOp = [ op |-> "render", ok |-> TRUE, seed |-> 0, name |-> "",
                  errorBefore |-> NoError, realTimeBefore |-> autoStart,
                  timerBefore |-> FALSE,
                  slotBefore |-> storage # Absent, loaded |-> FALSE ]
    /\ events = 0

\* No export helper has been called.
NoExport == [given |-> FALSE, records |-> << >>]

\* No stateless helper has been called.
NoCall == [fn |-> "none"]

Init ==
    /\ FirstRender(InitialSlots)
    /\ exportArg = NoExport /\ downloads = << >>
    /\ currentMonth = SessionMonth /\ call = NoCall

\* Handlers can be called once the effects have run, and, through a handle
\* kept by the caller, after the component is gone.
Callable == phase \in {"mounted", "unmounted"} /\ events < MaxEvents

\* React commits the first render and runs both effects, in order.
Mount(seed, fail) ==
    /\ phase = "rendered"
    /\ LET s == realTimeEffect(mountEffect(Cur, seed, fail))
       IN  Commit([s EXCEPT !.phase = "mounted"])
    /\ lastOp' = Op("mount", seed, fail, "")
    /\ events' = events

\* React renders again after isRealTime changed and runs the effect that
\* depends on it.
Render ==
    /\ phase = "mounted"
    /\ isRealTime # renderedIsRealTime
    /\ LET s == realTimeEffect([Cur EXCEPT !.renderedIsRealTime = isRealTime])
       IN  Commit(s)
    /\ lastOp' = Op("render", 0, "none", "")
    /\ events' = events

\* React unmounts the component.
Unmount ==
    /\ phase = "mounted"
    /\ Commit([mountCleanup(Cur) EXCEPT !.phase = "unmounted"])
    /\ lastOp' = Op("unmount", 0, "none", "")
    /\ events' = events

Refresh(seed, fail) ==
    /\ Callable
    /\ Commit(refreshData(Cur, seed, fail))
    /\ lastOp' = Op("refresh", seed, fail, "")
    /\ events' = events + 1

\* One update interval passes and the browser runs the callback of an
\* active interval.
Tick(handle, seed, fail) ==
    /\ handle \in timers
    /\ events < MaxEvents
    /\ Commit(intervalCallback([Cur EXCEPT !.now = @ + DefaultUpdateInterval],
                               seed, fail))
    /\ lastOp' = Op("tick", seed, fail, "")
    /\ events' = events + 1

\* One update interval passes with no interval active.
Elapse ==
    /\ timers = {}
    /\ events < MaxEvents
    /\ Commit([Cur EXCEPT !.now = @ + DefaultUpdateInterval])
    /\ lastOp' = Op("elapse", 0, "none", "")
    /\ events' = events + 1

Start ==
    /\ Callable
    /\ LET s == startRealTime(Cur) IN Commit(s)
    /\ lastOp' = Op("start", 0, "none", "")
    /\ events' = events + 1

Stop ==
    /\ Callable
    /\ Commit(stopRealTime(Cur))
    /\ lastOp' = Op("stop", 0, "none", "")
    /\ events' = events + 1

Toggle ==
    /\ Callable
    /\ LET s == toggleRealTime(Cur) IN Commit(s)
    /\ lastOp' = Op("toggle", 0, "none", "")
    /\ events' = events + 1

Clear ==
    /\ Callable
    /\ Commit(clearData(Cur))
    /\ lastOp' = Op("clear", 0, "none", "")
    /\ events' = events + 1

UpdateDataset(datasetName, newData) ==
    /\ Callable
    /\ Commit(updateDataset(Cur, datasetName, newData))
    /\ lastOp' = Op("updateDataset", 0, "none", datasetName)
    /\ events' = events + 1

Next ==
    \/ \E seed \in Seeds, fail \in Failures : Mount(seed, fail)
    \/ Render
    \/ Unmount
    \/ \E seed \in Seeds, fail \in Failures : Refresh(seed, fail)
    \/ \E handle \in timers, seed \in Seeds, fail \in Failures :
            Tick(handle, seed, fail)
    \/ Elapse
    \/ Start
    \/ Stop
    \/ Toggle
    \/ Clear
    \/ \E datasetName \in DatasetNames, newData \in DatasetInputs :
            UpdateDataset(datasetName, newData)

Spec == Init /\ [][Next]_vars

\* A tick whose generators return, as the record of the call shows it: a
\* step of Next is one of these exactly when it is a step
\* Tick(handle, seed, "none").
TickSucceeds ==
    \E seed \in Seeds :
        /\ timers # {}
        /\ events < MaxEvents
        /\ events' = events + 1
        /\ lastOp' = Op("tick", seed, "none", "")

\* The pages whose storage works and holds nothing or a fresh snapshot.
FairInit ==
    /\ FirstRender({Absent,
            Item(JSONstringify(EarlierSnapshot(DefaultUpdateInterval)))})
    /\ storageMode = "ok"
    /\ exportArg = NoExport /\ downloads = << >>
    /\ currentMonth = SessionMonth /\ call = NoCall

\* The browser keeps running the callback of an interval that stays active,
\* and the generators keep returning.
FairSpec ==
    FairInit /\ [][Next]_vars /\ WF_<<events, lastOp>>(TickSucceeds)

\* ------------------------------------------------- sessions of the same page
\* What else the page may find under the key: JSON of another shape, a
\* snapshot whose timestamp is no date, and one that holds only the sales.
ForeignObject == [version |-> "v2"]
UndatedSnapshot ==
    [EarlierSnapshot(DefaultUpdateInterval)
        EXCEPT !.lastUpdated = <<"text", "yesterday">>]
PartialSnapshot ==
    [ sales |-> generateSalesData(DefaultMonths, SessionMonth, EarlierSeed),
      lastUpdated |-> toISOString(StartTime - DefaultUpdateInterval) ]
SessionSlots ==
    InitialSlots
        \cup {Item(JSONstringify(ForeignObject)),
              Item(JSONstringify(UndatedSnapshot)),
              Item(JSONstringify(PartialSnapshot))}

\* The time between the last event of one session and the first render of
\* the next.
ReloadGaps == {StaleWindow - 1, StaleWindow}

\* The page is loaded again: the hook of the new page starts from its
\* initial values, no interval of the old page survives, and the storage
\* holds what the old page left there.
Reload(gap) ==
    /\ phase \in {"mounted", "unmounted"}
    /\ events < MaxEvents
    /\ Commit([Cur EXCEPT
            !.salesData = << >>, !.trafficData = << >>,
            !.productData = << >>, !.kpiData = << >>,
            !.isRealTime = autoStart, !.renderedIsRealTime = autoStart,
            !.now = now + gap, !.lastUpdated = now + gap,
            !.updateCount = 0, !.isLoading = TRUE, !.error = NoError,
            !.intervalRef = 0, !.mountedRef = TRUE, !.phase = "rendered",
            !.timers = {}, !.nextTimerId = 1])
    /\ lastOp' = [ op |-> "reload", ok |-> TRUE, seed |-> 0, name |-> "",
                   errorBefore |-> NoError, realTimeBefore |-> autoStart,
                   timerBefore |-> FALSE,
                   slotBefore |-> storage # Absent, loaded |-> FALSE ]
    /\ events' = events + 1

SessionInit ==
    /\ FirstRender(SessionSlots)
    /\ exportArg = NoExport /\ downloads = << >>
    /\ currentMonth = SessionMonth /\ call = NoCall

\* The sessions of a user who refreshes, clears and reloads the page.
SessionNext ==
    \/ \E seed \in Seeds, fail \in Failures : Mount(seed, fail)
    \/ Unmount
    \/ \E seed \in Seeds, fail \in Failures : Refresh(seed, fail)
    \/ \E handle \in timers, seed \in Seeds, fail \in Failures :
            Tick(handle, seed, fail)
    \/ Elapse
    \/ Clear
    \/ \E gap \in ReloadGaps : Reload(gap)

SessionSpec == SessionInit /\ [][SessionNext]_vars

\* ----------------------------------------------------------- export helpers
\* A string is the sequence of its characters, where a run of characters
\* none of which is a comma, a double quote or a line break may be kept as
\* one piece.  A field value is a number or a string, tagged with its
\* typeof.  An object is the list of its properties << name, value >> in
\* insertion order, which is the order Object.keys reads.
Comma == ","
Quote == "\""
LineBreak == "\n"
Number(n) == <<"number", n>>
Str(chars) == <<"string", chars>>

\* Object.keys(object) and object[name]
ObjectKeys(object) == [i \in 1..Len(object) |-> object[i][1]]
Property(object, name) ==
    IF \E i \in 1..Len(object) : object[i][1] = name
    THEN object[CHOOSE i \in 1..Len(object) : object[i][1] = name][2]
    ELSE Undefined

\* value.includes(character)
includes(chars, character) == \E i \in 1..Len(chars) : chars[i] = character

\* value.replace(/"/g, '""')
RECURSIVE replaceQuotes(_)
replaceQuotes(chars) ==
    IF chars = << >> THEN << >>
    ELSE (IF Head(chars) = Quote THEN <<Quote, Quote>> ELSE <<Head(chars)>>)
            \o replaceQuotes(Tail(chars))

\* String(n) of an integer n >= 0
DigitCharacters == <<"0", "1", "2", "3", "4", "5", "6", "7", "8", "9">>
RECURSIVE NumberText(_)
NumberText(n) ==
    IF n < 10 THEN <<DigitCharacters[n + 1]>>
    ELSE NumberText(n \div 10) \o <<DigitCharacters[(n % 10) + 1]>>

\* What Array.prototype.join makes of one element: '' of undefined, the
\* string itself, String(number).
ElementText(value) ==
    CASE value[1] = "string" -> value[2]
      [] value[1] = "number" -> NumberText(value[2])
      [] OTHER -> << >>

\* texts.join(separator)
RECURSIVE join(_, _)
join(texts, separator) ==
    IF Len(texts) = 0 THEN << >>
    ELSE IF Len(texts) = 1 THEN texts[1]
    ELSE texts[1] \o <<separator>> \o join(Tail(texts), separator)

csvField_QuotesNotDoubled(value) ==
    IF value[1] = "string"
        /\ (includes(value[2], Comma) \/ includes(value[2], Quote))
    THEN Str(<<Quote>> \o value[2] \o <<Quote>>)
    ELSE value

\* exportToCSV, the callback of headers.map: the value as it is emitted.
csvField(value) ==
    IF value[1] = "string"
        /\ (includes(value[2], Comma) \/ includes(value[2], Quote))
    THEN Str(<<Quote>> \o replaceQuotes(value[2]) \o <<Quote>>)
    ELSE value

\* exportToCSV, csvContent: the header row and one row per record, joined
\* by line breaks.
csvContent(data) ==
    LET headers == ObjectKeys(data[1])
        row(i) == join([h \in 1..Len(headers) |->
                        ElementText(csvField(Property(data[i], headers[h])))],
                       Comma)
    IN  join(<<join(headers, Comma)>> \o [i \in 1..Len(data) |-> row(i)],
             LineBreak)

\* downloadFile(content, filename, mimeType): the downloads it causes.
downloadFile(content, filename, mimeType) ==
    << [content |-> content, filename |-> filename, mimeType |-> mimeType] >>

\* exportToCSV(data, filename): the downloads it causes.  `data` is an
\* argument: whether one was given, and the records.
exportToCSV(data, filename) ==
    IF ~data.given \/ Len(data.records) = 0 THEN << >>
    ELSE downloadFile(csvContent(data.records), filename \o <<".csv">>,
                      "text/csv")

\* exportToJSON(data, filename)
exportToJSON(data, filename) ==
    downloadFile(JSONstringify(data), filename \o <<".json">>,
                 "application/json")

\* { ...base, ...over }
Spread(base, over) ==
    [k \in DOMAIN base \cup DOMAIN over |->
        IF k \in DOMAIN over THEN over[k] ELSE base[k]]

\* new Date().toISOString().split('T')[0]: the UTC day of the instant.
MsPerDay == 86400000
DayOf(t) == t \div MsPerDay

\* An array given as the argument of exportToCSV.
Given(records) == [given |-> TRUE, records |-> records]

exportDashboardData_MergesIntoOne(dashboardData, format, t) ==
    LET filename == <<"dashboard-export-", DayOf(t)>>
        exportData ==
            Spread([ exportDate |-> toISOString(t),
                     summary |->
                        [ totalKPIs |-> Len(dashboardData.kpis),
                          dataPoints |->
                            [ sales |-> Len(dashboardData.salesData),
                              traffic |-> Len(dashboardData.trafficData),
                              products |-> Len(dashboardData.productData) ] ] ],
                   dashboardData)
    IN  IF format = "csv"
        THEN exportToCSV(Given(dashboardData.salesData
                                \o dashboardData.trafficData
                                \o dashboardData.productData
                                \o dashboardData.kpis), filename)
        ELSE exportToJSON(exportData, filename)

\* exportDashboardData(dashboardData, format) called at the instant t: the
\* downloads it causes.  An array, empty or not, is truthy.
exportDashboardData(dashboardData, format, t) ==
    LET filename == <<"dashboard-export-", DayOf(t)>>
        exportData ==
            Spread([ exportDate |-> toISOString(t),
                     summary |->
                        [ totalKPIs |-> Len(dashboardData.kpis),
                          dataPoints |->
                            [ sales |-> Len(dashboardData.salesData),
                              traffic |-> Len(dashboardData.trafficData),
                              products |-> Len(dashboardData.productData) ] ] ],
                   dashboardData)
    IN  IF format = "csv"
        THEN exportToCSV(Given(dashboardData.salesData),
                         filename \o <<"-sales">>)
             \o exportToCSV(Given(dashboardData.trafficData),
                            filename \o <<"-traffic">>)
             \o exportToCSV(Given(dashboardData.productData),
                            filename \o <<"-products">>)
             \o exportToCSV(Given(dashboardData.kpis),
                            filename \o <<"-kpis">>)
        ELSE exportToJSON(exportData, filename)

\* The records of the generators as objects: their properties in the order
\* of the object literals, their strings as characters.
Fixed1Text(fixed) ==
    NumberText(fixed[2] \div 10) \o <<".">> \o NumberText(fixed[2] % 10)
SalesObject(r) ==
    << << <<"month">>, Str(<<r.month>>) >>,
       << <<"revenue">>, Number(r.revenue) >>,
       << <<"orders">>, Number(r.orders) >>,
       << <<"customers">>, Number(r.customers) >>,
       << <<"conversion">>, Str(Fixed1Text(r.conversion)) >> >>
TrafficObject(r) ==
    << << <<"time">>, Str(<<DigitCharacters[r.time[1] + 1],
                            DigitCharacters[r.time[2] + 1], r.time[3]>>) >>,
       << <<"visitors">>, Number(r.visitors) >>,
       << <<"pageViews">>, Number(r.pageViews) >>,
       << <<"bounceRate">>, Str(Fixed1Text(r.bounceRate)) >> >>
ProductObject(r) ==
    << << <<"name">>, Str(<<r.name>>) >>,
       << <<"color">>, Str(<<r.color>>) >>,
       << <<"value">>, Number(r.value) >> >>
KPIObject(r) ==
    << << <<"title">>, Str(<<r.title>>) >>,
       << <<"icon">>, Str(<<r.icon>>) >>,
       << <<"color">>, Str(<<r.color>>) >>,
       << <<"bgColor">>, Str(<<r.bgColor>>) >>,
       << <<"value">>,
          Str(<<r.value[1]>>
              \o (IF r.title = "Conversion Rate"
                    THEN Fixed1Text(<<"fixed1", r.value[2]>>)
                    ELSE NumberText(r.value[2]))
              \o <<r.value[3]>>) >>,
       << <<"change">>,
          Str(<<r.change[1]>> \o Fixed1Text(<<"fixed1", r.change[2]>>)
              \o <<r.change[3]>>) >>,
       << <<"trend">>, Str(<<r.trend>>) >> >>

\* getDashboardData()
getDashboardData(s) ==
    [ salesData |-> [i \in 1..Len(s.salesData) |-> SalesObject(s.salesData[i])],
      trafficData |->
        [i \in 1..Len(s.trafficData) |-> TrafficObject(s.trafficData[i])],
      productData |->
        [i \in 1..Len(s.productData) |-> ProductObject(s.productData[i])],
      kpis |-> [i \in 1..Len(s.kpiData) |-> KPIObject(s.kpiData[i])],
      metadata |->
        [ lastUpdated |-> s.lastUpdated, updateCount |-> s.updateCount,
          isRealTime |-> s.isRealTime, isLoading |-> s.isLoading,
          error |-> s.error ] ]

\* The variables of the hook and its browser, which no export helper
\* touches.
hookVars ==
    << autoStart, enablePersistence, salesData, trafficData, productData,
       kpiData, isRealTime, lastUpdated, updateCount, isLoading, error,
       renderedIsRealTime, intervalRef, mountedRef, phase, timers,
       nextTimerId, storage, storageMode, now, currentMonth, raised, saved,
       events >>

\* The Dashboard's export buttons: exportDashboardData(getDashboardData(),
\* format).
ExportFormats == {"csv", "json", "xlsx"}
ExportDashboard(format) ==
    /\ phase = "mounted"
    /\ downloads' = exportDashboardData(getDashboardData(Cur), format, now)
    /\ lastOp' = Op("exportDashboardData", 0, "none", format)
    /\ UNCHANGED << hookVars, exportArg, call >>

\* updateDataset(name, [])
EmptyDataset(datasetName) == UpdateDataset(datasetName, << >>)

\* The page of the Dashboard with nothing in the storage.
ExportInit ==
    /\ FirstRender({Absent})
    /\ storageMode = "ok"
    /\ exportArg = NoExport /\ downloads = << >>
    /\ currentMonth = SessionMonth /\ call = NoCall

ExportNext ==
    \/ \E seed \in Seeds, fail \in Failures : Mount(seed, fail)
    \/ Clear
    \/ \E datasetName \in DatasetNames : EmptyDataset(datasetName)
    \/ \E format \in ExportFormats : ExportDashboard(format)

ExportSpec == ExportInit /\ [][ExportNext]_vars

\* ---------------------------------------------------- exportToCSV's inputs
\* The longest string and the longest list of records exportToCSV is given.
MaxStringLen == 1
MaxRecords == 2

Characters == {"x", Comma, Quote, LineBreak}
Strings == UNION {[1..k -> Characters] : k \in 0..MaxStringLen}
FieldValues == {Str(chars) : chars \in Strings} \cup {Number(0), Number(12)}
Records == {<< << <<"a">>, Number(12) >>, << <<"b">>, value >> >> :
                value \in FieldValues}
RecordLists == UNION {[1..n -> Records] : n \in 0..MaxRecords}

\* [{a: 1, b: "x,y"}, {a: 2, b: "z"}]; a list whose second record has no
\* b; one whose second record has its properties in the other order; and
\* [{a: "x\ny", b: 0}].
ExampleRecords ==
    << << << <<"a">>, Number(1) >>, << <<"b">>, Str(<<"x", Comma, "y">>) >> >>,
       << << <<"a">>, Number(2) >>, << <<"b">>, Str(<<"z">>) >> >> >>
SparseRecords ==
    << << << <<"a">>, Number(12) >>, << <<"b">>, Str(<<"x">>) >> >>,
       << << <<"a">>, Number(0) >> >> >>
ReorderedRecords ==
    << << << <<"a">>, Number(12) >>, << <<"b">>, Str(<<"x">>) >> >>,
       << << <<"b">>, Str(<<Comma>>) >>, << <<"a">>, Number(0) >> >> >>
MultilineRecords ==
    << << << <<"a">>, Str(<<"x", LineBreak, "y">>) >>,
          << <<"b">>, Number(0) >> >> >>
CSVArguments ==
    {NoExport}
        \cup {Given(records) : records \in
                RecordLists
                    \cup {ExampleRecords, SparseRecords, ReorderedRecords,
                          MultilineRecords}}

\* exportToCSV(data) with the default filename.
ExportToCSV ==
    /\ downloads' = exportToCSV(exportArg, <<"dashboard-data">>)
    /\ lastOp' = Op("exportToCSV", 0, "none", "")
    /\ UNCHANGED << hookVars, exportArg, call >>

CSVInit ==
    /\ FirstRender({Absent})
    /\ autoStart = FALSE /\ enablePersistence = FALSE /\ storageMode = "ok"
    /\ exportArg \in CSVArguments /\ downloads = << >>
    /\ currentMonth = SessionMonth /\ call = NoCall

CSVNext == ExportToCSV

CSVSpec == CSVInit /\ [][CSVNext]_vars

\* ---------------------------------------------- generateSalesData's inputs
\* The largest month count generateSalesData is called with.
MaxMonths == 14

SalesCall(months) ==
    [ fn |-> "generateSalesData", months |-> months, done |-> FALSE,
      result |-> << >> ]

\* generateSalesData(months) runs and returns.
GenerateSales(seed) ==
    /\ call.fn = "generateSalesData"
    /\ ~call.done
    /\ call' = [call EXCEPT
            !.done = TRUE,
            !.result = generateSalesData(call.months, currentMonth, seed)]
    /\ lastOp' = Op("generateSalesData", seed, "none", "")
    /\ UNCHANGED << hookVars, exportArg, downloads >>

\* A call in any calendar month, on a page whose hook is not used.
SalesInit ==
    /\ FirstRender({Absent})
    /\ autoStart = FALSE /\ enablePersistence = FALSE /\ storageMode = "ok"
    /\ exportArg = NoExport /\ downloads = << >>
    /\ currentMonth \in 0..11
    /\ call \in {SalesCall(months) : months \in 1..MaxMonths}

SalesNext == \E seed \in Seeds : GenerateSales(seed)

SalesSpec == SalesInit /\ [][SalesNext]_vars

\* ----------------------------------------------------------- summary report
\* array.reduce((sum, item) => sum + (item[field] || 0), 0)
sumOf(array, field) ==
    LET acc[i \in 0..Len(array)] ==
            IF i = 0 THEN 0
            ELSE acc[i - 1]
                    + (IF field \in DOMAIN array[i] THEN array[i][field] ELSE 0)
    IN  acc[Len(array)]

\* parseFloat(text) of a decimal string with one fraction digit, in tenths.
parseFloat(fixed) == fixed[2]

\* array.reduce((sum, item) => sum + parseFloat(item[field] || 0), 0), in
\* tenths.
sumOfParsed(array, field) ==
    LET acc[i \in 0..Len(array)] ==
            IF i = 0 THEN 0
            ELSE acc[i - 1]
                    + (IF field \in DOMAIN array[i]
                        THEN parseFloat(array[i][field]) ELSE 0)
    IN  acc[Len(array)]

\* a / b as the fraction it is; the number 0 is 0 / 1.
Ratio(a, b) == <<"ratio", a, b>>
averageOf(sum, array) ==
    IF Len(array) > 0 THEN Ratio(sum, Len(array)) ELSE Ratio(0, 1)

\* The object { value: 0 } the search for the top category starts from.
NoCategory == [value |-> 0]

\* productData.reduce((max, item) => (item.value > max.value ? item : max),
\* { value: 0 })
topCategory(products) ==
    LET max[i \in 0..Len(products)] ==
            IF i = 0 THEN NoCategory
            ELSE IF products[i].value > max[i - 1].value
            THEN products[i] ELSE max[i - 1]
    IN  max[Len(products)]

\* {}
EmptyObject == [k \in {} |-> 0]

\* createSummaryReport(dashboardData) called at the instant t.
createSummaryReport(dashboardData, t) ==
    LET salesSummary ==
            IF "salesData" \in DOMAIN dashboardData
            THEN [ totalRevenue |-> sumOf(dashboardData.salesData, "revenue"),
                   totalOrders |-> sumOf(dashboardData.salesData, "orders"),
                   avgRevenue |->
                        averageOf(sumOf(dashboardData.salesData, "revenue"),
                                  dashboardData.salesData) ]
            ELSE EmptyObject
        trafficSummary ==
            IF "trafficData" \in DOMAIN dashboardData
            THEN [ totalVisitors |->
                        sumOf(dashboardData.trafficData, "visitors"),
                   totalPageViews |->
                        sumOf(dashboardData.trafficData, "pageViews"),
                   avgBounceRate |->
                        averageOf(sumOfParsed(dashboardData.trafficData,
                                              "bounceRate"),
                                  dashboardData.trafficData) ]
            ELSE EmptyObject
        productSummary ==
            IF "productData" \in DOMAIN dashboardData
            THEN [ totalCategories |-> Len(dashboardData.productData),
                   topCategory |-> topCategory(dashboardData.productData),
                   totalValue |-> sumOf(dashboardData.productData, "value") ]
            ELSE EmptyObject
    IN  [ reportDate |-> toISOString(t),
          period |-> "Current Period",
          sales |-> salesSummary,
          traffic |-> trafficSummary,
          products |-> productSummary,
          kpis |-> IF "kpis" \in DOMAIN dashboardData
                    THEN dashboardData.kpis ELSE << >> ]

\* The product sequences given to it: up to MaxRecords categories, in the
\* order of the generator's, each with one of three values.
ProductValues == {0, 10, 25}
ProductLists ==
    UNION {{[i \in 1..n |->
                [ name |-> categories[i].name, color |-> categories[i].color,
                  value |-> values[i] ]] :
                values \in [1..n -> ProductValues]} : n \in 0..MaxRecords}

\* The snapshots given to it: each sequence empty or as a generator
\* returns it.
SummaryInputs ==
    { [ salesData |-> sales, trafficData |-> traffic,
        productData |-> products, kpis |-> kpiList ] :
        sales \in {<< >>} \cup
            {generateSalesData(n, SessionMonth, seed) :
                n \in 1..MaxRecords, seed \in Seeds},
        traffic \in {<< >>} \cup {generateTrafficData(seed) : seed \in Seeds},
        products \in ProductLists,
        kpiList \in {<< >>} \cup {generateKPIData(seed) : seed \in Seeds} }

SummaryCall(dashboardData) ==
    [ fn |-> "createSummaryReport", dashboardData |-> dashboardData,
      done |-> FALSE, result |-> EmptyObject ]

\* createSummaryReport(dashboardData) runs and returns.
CreateSummary ==
    /\ call.fn = "createSummaryReport"
    /\ ~call.done
    /\ call' = [call EXCEPT
            !.done = TRUE,
            !.result = createSummaryReport(call.dashboardData, now)]
    /\ lastOp' = Op("createSummaryReport", 0, "none", "")
    /\ UNCHANGED << hookVars, exportArg, downloads >>

SummaryInit ==
    /\ FirstRender({Absent})
    /\ autoStart = FALSE /\ enablePersistence = FALSE /\ storageMode = "ok"
    /\ exportArg = NoExport /\ downloads = << >>
    /\ currentMonth = SessionMonth
    /\ call \in {SummaryCall(dashboardData) : dashboardData \in SummaryInputs}

SummaryNext == CreateSummary

SummarySpec == SummaryInit /\ [][SummaryNext]_vars

\* --------------------------------------------------------------- properties
\* The four sequences the hook holds, and what its generators return for
\* the stream `seed`.
Sequences4 == << salesData, trafficData, productData, kpiData >>
Generated(seed) ==
    << generateSalesData(DefaultMonths, currentMonth, seed),
       generateTrafficData(seed), generateProductData(seed),
       generateKPIData(seed) >>
GeneratingOps == {"refresh", "tick"}

\* C1: while the component is live, a refresh() (manual or from a tick)
\* whose four generators all return replaces the four sequences by what
\* they returned, adds exactly 1 to updateCount and ends with error null
\* and isLoading false, whatever error held before.
C1_RefreshSuccess ==
    [][ (lastOp'.op \in GeneratingOps /\ lastOp'.ok /\ mountedRef)
            => /\ Sequences4' = Generated(lastOp'.seed)
               /\ updateCount' = updateCount + 1
               /\ error' = NoError
               /\ isLoading' = FALSE ]_vars

\* A refresh succeeded right after one that failed: the error is gone.
C1_Witness ==
    /\ lastOp.op = "refresh" /\ lastOp.ok /\ mountedRef
    /\ lastOp.errorBefore = GenerationError
    /\ error = NoError /\ updateCount = 1
    /\ Sequences4 = Generated(lastOp.seed)

\* refresh() runs: called by the user, or by the callback of a tick while
\* the component is live.
RefreshRuns == lastOp'.op = "refresh" \/ (lastOp'.op = "tick" /\ mountedRef)

\* C2 as stated: a refresh() in which a generator raises leaves the four
\* sequences and updateCount as they were, sets error to a message, and,
\* while the component is live, ends with isLoading false.
C2_Original ==
    [][ (RefreshRuns /\ ~lastOp'.ok)
            => /\ Sequences4' = Sequences4
               /\ updateCount' = updateCount
               /\ error' # NoError
               /\ (mountedRef => isLoading' = FALSE) ]_vars

\* C2 amended: a refresh() in which a generator raises leaves the four
\* sequences and updateCount as they were; while the component is live it
\* sets error to a message and ends with isLoading false; after the
\* teardown it leaves error as it was.
C2_RefreshFailure ==
    [][ (RefreshRuns /\ ~lastOp'.ok)
            => /\ Sequences4' = Sequences4
               /\ updateCount' = updateCount
               /\ IF mountedRef
                    THEN error' = GenerationError /\ isLoading' = FALSE
                    ELSE error' = error ]_vars

\* A refresh failed on a live component that held generated data: the data
\* is still there and the error is shown.
C2_Witness ==
    /\ lastOp.op \in GeneratingOps /\ ~lastOp.ok /\ mountedRef
    /\ lastOp.errorBefore = NoError /\ error = GenerationError
    /\ updateCount = 1 /\ Len(salesData) = DefaultMonths
    /\ isLoading = FALSE

\* C3: at most one interval is active at any time, and it is the one the
\* hook holds the handle of; after start() exactly one is active, also when
\* one was active before the call.
C3_OneTimer ==
    /\ Cardinality(timers) <= 1
    /\ timers \subseteq {intervalRef}
    /\ lastOp.op = "start" => timers = {intervalRef}

\* start() was called on a live component whose interval was running: the
\* earlier handles are cancelled and the newest is the only one active.
C3_Witness ==
    /\ lastOp.op = "start" /\ lastOp.timerBefore /\ phase = "mounted"
    /\ nextTimerId >= 4
    /\ timers = {nextTimerId - 1}

\* C4: stop() leaves no interval active, the handle cleared and (live)
\* isRealTime false, also when called again; while no interval is active
\* no tick fires, so updateCount and the sequences change only through
\* refresh, clear, updateDataset; and once stopped, only start() or
\* toggle() activates an interval again.
C4_StopHalts ==
    [][ /\ lastOp'.op = "stop"
            => /\ timers' = {} /\ intervalRef' = 0
               /\ (phase = "mounted" => isRealTime' = FALSE)
               /\ (~lastOp'.timerBefore /\ ~isRealTime
                      => UNCHANGED << Sequences4, updateCount, lastUpdated,
                                      isLoading, error, isRealTime, storage,
                                      timers, intervalRef >>)
        /\ (timers = {} /\ phase # "rendered")
            => /\ lastOp'.op # "tick"
               /\ (<< Sequences4, updateCount >>' # << Sequences4, updateCount >>
                      => lastOp'.op \in {"refresh", "clear", "updateDataset"})
        /\ (timers = {} /\ timers' # {} /\ (~isRealTime \/ phase = "unmounted"))
            => lastOp'.op \in {"start", "toggle"} ]_vars

\* stop() was called a second time, after an interval had been started and
\* stopped.
C4_Witness ==
    /\ lastOp.op = "stop" /\ ~lastOp.timerBefore /\ phase = "mounted"
    /\ nextTimerId > 1 /\ events = 2
    /\ timers = {} /\ intervalRef = 0 /\ ~isRealTime

\* What the hook shows of its state.
Shown ==
    << Sequences4, updateCount, lastUpdated, isLoading, error, isRealTime >>

\* C5: the callback of an interval that fires after the teardown changes
\* none of the four sequences, updateCount, lastUpdated, isLoading, error,
\* and writes nothing to the storage slot.
C5_LateTickNoop ==
    [][ (lastOp'.op = "tick" /\ phase = "unmounted")
            => UNCHANGED << Sequences4, updateCount, lastUpdated, isLoading,
                            error, storage >> ]_vars

\* A tick fired after the teardown, on a hook that persists to a working
\* storage.
C5_Witness ==
    /\ lastOp.op = "tick" /\ phase = "unmounted" /\ ~mountedRef
    /\ enablePersistence /\ storageMode = "ok"

\* C6 as stated: after the teardown no handler changes the state the hook
\* shows, and no interval becomes active again.
C6_Original ==
    [][ phase = "unmounted" => (Shown' = Shown /\ timers' = {}) ]_vars

\* C7: the teardown marks the component not live and leaves no interval
\* active, whatever calls came before; from then on the component stays
\* not live, and a tick neither refreshes nor persists.
C7_Teardown ==
    [][ /\ lastOp'.op = "unmount" => (~mountedRef' /\ timers' = {})
        /\ phase = "unmounted"
            => /\ ~mountedRef'
               /\ lastOp'.op = "tick"
                    => (updateCount' = updateCount /\ storage' = storage) ]_vars

\* The teardown came after calls by the user and cancelled a running
\* interval.
C7_Witness ==
    /\ lastOp.op = "unmount" /\ lastOp.timerBefore /\ events >= 1
    /\ ~mountedRef /\ timers = {} /\ intervalRef # 0

\* C8 as stated: from any live state two consecutive toggle() calls bring
\* isRealTime and the presence of an active interval back to what they were
\* before the first, re-render or not: a toggle() that follows a toggle()
\* with no render between restores what the first one found, and a
\* toggle() that follows a render flips both.
C8_Original ==
    [][ (lastOp'.op = "toggle" /\ phase = "mounted")
            => /\ lastOp.op = "toggle"
                    => /\ isRealTime' = lastOp.realTimeBefore
                       /\ (timers' # {}) = lastOp.timerBefore
               /\ lastOp.op \in {"mount", "render"}
                    => /\ isRealTime' # isRealTime
                       /\ (timers' = {}) # (timers = {}) ]_vars

\* C9 as stated: clear() leaves the four sequences empty, updateCount 0 and
\* the slot absent, for every configuration and content of the slot.
C9_Original ==
    [][ lastOp'.op = "clear"
            => /\ Sequences4' = << << >>, << >>, << >>, << >> >>
               /\ updateCount' = 0
               /\ storage' = Absent ]_vars

\* C9 amended: on a live component clear() leaves the four sequences empty
\* and updateCount 0; it leaves the slot absent when enablePersistence is
\* true and the storage lets the item be removed, and leaves the slot as it
\* was otherwise.
C9_Clear ==
    [][ lastOp'.op = "clear"
            => /\ phase = "mounted"
                    => /\ Sequences4' = << << >>, << >>, << >>, << >> >>
                       /\ updateCount' = 0
               /\ IF enablePersistence /\ storageMode # "broken"
                    THEN storage' = Absent
                    ELSE storage' = storage ]_vars

\* clear() emptied a populated live hook and removed the snapshot it found
\* in the slot.
C9_Witness ==
    /\ lastOp.op = "clear" /\ phase = "mounted" /\ enablePersistence
    /\ lastOp.slotBefore /\ storage = Absent
    /\ Sequences4 = << << >>, << >>, << >>, << >> >> /\ updateCount = 0

\* The slot holds a snapshot that loadPersistedData adopts.
UsableSlot ==
    /\ enablePersistence /\ storageMode # "broken"
    /\ storage # Absent /\ storage[2] # NotJSON
    /\ now - storage[2][2].lastUpdated[2] < StaleWindow
SlotData == storage[2][2]

\* C10: the mount runs once; it adopts the persisted snapshot when
\* persistence is enabled and the slot is usable, and calls refresh()
\* exactly when it did not adopt one; then an interval is active iff
\* autoStart, and when the generators return, the four sequences are not
\* empty.
C10_Initialization ==
    [][ /\ lastOp'.op = "mount"
            => /\ phase = "rendered" /\ phase' = "mounted"
               /\ IF UsableSlot
                    THEN /\ Sequences4' = << SlotData.sales, SlotData.traffic,
                                             SlotData.products, SlotData.kpis >>
                         /\ lastUpdated' = SlotData.lastUpdated[2]
                         /\ updateCount' = 0
                    ELSE IF lastOp'.ok
                    THEN /\ Sequences4' = Generated(lastOp'.seed)
                         /\ updateCount' = 1
                    ELSE /\ Sequences4' = Sequences4
                         /\ updateCount' = 0 /\ error' = GenerationError
               /\ Cardinality(timers') = IF autoStart THEN 1 ELSE 0
               /\ isRealTime' = autoStart
               /\ lastOp'.ok => \A i \in 1..4 : Sequences4'[i] # << >>
        /\ phase' = "rendered" => phase = "rendered" ]_vars

\* The mount adopted the persisted snapshot without a refresh and started
\* the interval.
C10_Witness ==
    /\ lastOp.op = "mount" /\ autoStart /\ enablePersistence
    /\ updateCount = 0 /\ Len(salesData) = DefaultMonths
    /\ Cardinality(timers) = 1 /\ lastUpdated < StartTime

\* The snapshot the storage last accepted, as the hook holds one: its four
\* sequences and the instant its ISO-8601 timestamp names.
SavedSequences == << saved.sales, saved.traffic, saved.products, saved.kpis >>
SavedInstant == saved.lastUpdated[2]

\* C11: a snapshot that persistData saved to a working storage and that a
\* later session loads less than the staleness window after its timestamp
\* is adopted as it was saved: the four sequences and lastUpdated the hook
\* then holds are those of the snapshot.
C11_RoundTrip ==
    [][ (/\ lastOp'.op = "mount"
         /\ saved # NoSnapshot /\ enablePersistence /\ storageMode = "ok"
         /\ now - SavedInstant < StaleWindow)
            => /\ lastOp'.loaded
               /\ Sequences4' = SavedSequences
               /\ lastUpdated' = SavedInstant ]_vars

\* A session saved a snapshot, the page was loaded again within the window
\* and the new session adopted the snapshot without generating.
C11_Witness ==
    /\ lastOp.op = "mount" /\ lastOp.loaded /\ events >= 1
    /\ saved # NoSnapshot /\ storageMode = "ok"
    /\ Sequences4 = SavedSequences /\ lastUpdated = SavedInstant
    /\ lastUpdated < now /\ updateCount = 0

\* The slot holds the JSON text of an object whose lastUpdated is an
\* ISO-8601 timestamp; its age; and the sequence it holds under `key`,
\* empty when it holds none.
WellFormedSlot ==
    /\ storage # Absent /\ storage[2][1] = "json"
    /\ "lastUpdated" \in DOMAIN SlotData
    /\ SlotData.lastUpdated[1] = "iso"
SlotAge == now - SlotData.lastUpdated[2]
SlotSequence(key) == IF key \in DOMAIN SlotData THEN SlotData[key] ELSE << >>
SlotSequences ==
    << SlotSequence("sales"), SlotSequence("traffic"),
       SlotSequence("products"), SlotSequence("kpis") >>

\* What the mount shows of a load with the cutoff `fresh`: the load
\* reports success exactly when the storage can be read and the slot is
\* well formed and fresh, and then the hook holds the snapshot of the slot
\* and nothing is generated; when it reports 'not found' the state is the
\* one a refresh() of the initial state leaves, which is the initial
\* sequences, lastUpdated, updateCount and slot when a generator raises.
LoadOutcome(fresh) ==
    /\ lastOp'.loaded <=> (storageMode # "broken" /\ WellFormedSlot /\ fresh)
    /\ lastOp'.loaded
        => /\ Sequences4' = SlotSequences
           /\ lastUpdated' = SlotData.lastUpdated[2]
           /\ UNCHANGED << updateCount, error, storage >>
    /\ (~lastOp'.loaded /\ lastOp'.ok)
        => (Sequences4' = Generated(lastOp'.seed) /\ updateCount' = 1)
    /\ (~lastOp'.loaded /\ ~lastOp'.ok)
        => UNCHANGED << Sequences4, lastUpdated, updateCount, storage >>

\* C12 as stated: the load of the mount reports 'not found' and leaves the
\* state unchanged exactly when the slot is absent, malformed or older than
\* the 1-hour window; a slot exactly 1 hour old is adopted.
C12_Original ==
    [][ (lastOp'.op = "mount" /\ enablePersistence)
            => LoadOutcome(SlotAge <= StaleWindow) ]_vars

\* C12 amended: the load of the mount reports 'not found' and leaves the
\* state unchanged exactly when the storage cannot be read or the slot is
\* absent, malformed or at least 1 hour old; a slot less than 1 hour old is
\* adopted, and one exactly 1 hour old is not.
C12_LoadCutoff ==
    [][ (lastOp'.op = "mount" /\ enablePersistence)
            => LoadOutcome(SlotAge < StaleWindow) ]_vars

\* The mount found a well-formed snapshot exactly 1 hour old in a working
\* storage, did not adopt it, and its refresh failed: the sequences are
\* still empty and the slot is still there.
C12_Witness ==
    /\ lastOp.op = "mount" /\ ~lastOp.loaded /\ ~lastOp.ok
    /\ enablePersistence /\ storageMode = "ok"
    /\ WellFormedSlot /\ SlotAge = StaleWindow
    /\ Sequences4 = << << >>, << >>, << >>, << >> >> /\ updateCount = 0

\* C13: when every storage read, write and remove raises, the mount,
\* refresh() (manual or from a tick) and clear() end without raising; on a
\* live hook a refresh whose generators return still replaces the four
\* sequences and adds 1 to updateCount and leaves error null, and clear()
\* still empties the sequences; error is set only by a refresh in which a
\* generator raised.
C13_StorageFailuresSilent ==
    [][ (storageMode = "broken"
            /\ lastOp'.op \in {"mount", "refresh", "tick", "clear"})
            => /\ ~raised'
               /\ (lastOp'.op # "clear" /\ lastOp'.ok /\ mountedRef)
                    => /\ Sequences4' = Generated(lastOp'.seed)
                       /\ updateCount' = updateCount + 1
                       /\ error' = NoError
               /\ (lastOp'.op = "clear" /\ mountedRef)
                    => /\ Sequences4' = << << >>, << >>, << >>, << >> >>
                       /\ updateCount' = 0
               /\ error' # error => (error' = NoError \/ ~lastOp'.ok) ]_vars

\* With persistence enabled and a storage whose every call raises, the
\* mount generated and a later refresh() succeeded: the counter is at 2, no
\* error is shown and the slot is as it was found.
C13_Witness ==
    /\ storageMode = "broken" /\ enablePersistence
    /\ lastOp.op = "refresh" /\ lastOp.ok /\ phase = "mounted"
    /\ lastOp.slotBefore /\ storage # Absent
    /\ updateCount = 2 /\ error = NoError /\ ~raised
    /\ Sequences4 = Generated(lastOp.seed)

\* The names updateDataset knows, and the sequence each one names.
KnownDatasets == {"sales", "traffic", "products", "kpis"}
Datasets ==
    [ sales |-> salesData, traffic |-> trafficData,
      products |-> productData, kpis |-> kpiData ]

\* C14: updateDataset called with a name other than 'sales', 'traffic',
\* 'products' or 'kpis' leaves the four sequences as they were and does
\* not raise.
C14_UnknownDataset ==
    [][ (lastOp'.op = "updateDataset" /\ lastOp'.name \notin KnownDatasets)
            => (Sequences4' = Sequences4 /\ ~raised') ]_vars

\* updateDataset('bogus', ...) was called on a live hook that holds
\* generated data, which is still there.
C14_Witness ==
    /\ lastOp.op = "updateDataset" /\ lastOp.name = "bogus"
    /\ phase = "mounted" /\ updateCount = 1
    /\ Sequences4 = Generated(1) /\ ~raised

\* C15 as stated: updateDataset called with an unrecognized name changes
\* nothing: not the four sequences, lastUpdated, updateCount, isLoading,
\* error, isRealTime, nor the persisted slot.
C15_Original ==
    [][ (lastOp'.op = "updateDataset" /\ lastOp'.name \notin KnownDatasets)
            => UNCHANGED << Sequences4, lastUpdated, updateCount, isLoading,
                            error, isRealTime, storage >> ]_vars

\* C20 as stated: updateDataset with one of the four names replaces the
\* named sequence by the records given and sets lastUpdated to the clock,
\* and leaves the other three sequences, updateCount, error, isLoading,
\* isRealTime, the interval and the slot as they were.
UpdatesOnly(name) ==
    /\ Datasets'[name] \in DatasetInputs
    /\ lastUpdated' = now
    /\ \A other \in KnownDatasets \ {name} : Datasets'[other] = Datasets[other]
    /\ UNCHANGED << updateCount, error, isLoading, isRealTime, timers,
                    intervalRef, storage >>

C20_Original ==
    [][ (lastOp'.op = "updateDataset" /\ lastOp'.name \in KnownDatasets)
            => UpdatesOnly(lastOp'.name) ]_vars

\* C20 amended: on a live hook updateDataset with one of the four names
\* replaces the named sequence by the records given and sets lastUpdated
\* to the clock, and leaves the other three sequences, updateCount, error,
\* isLoading, isRealTime, the interval and the slot as they were; after
\* the teardown it changes nothing.
C20_UpdateDataset ==
    [][ (lastOp'.op = "updateDataset" /\ lastOp'.name \in KnownDatasets)
            => IF phase = "mounted"
                 THEN UpdatesOnly(lastOp'.name)
                 ELSE UNCHANGED << Shown, timers, intervalRef, storage >> ]_vars

\* updateDataset('kpis', records) was called on a live hook one interval
\* after the mount generated: the KPIs are the records given, the other
\* three sequences are the generated ones and lastUpdated moved.
C20_Witness ==
    /\ lastOp.op = "updateDataset" /\ lastOp.name = "kpis"
    /\ phase = "mounted" /\ updateCount = 1
    /\ kpiData \in DatasetInputs
    /\ << salesData, trafficData, productData >>
            = << Generated(1)[1], Generated(1)[2], Generated(1)[3] >>
    /\ lastUpdated = now /\ now > StartTime

\* The hook is live and its interval is active.
Ticking == phase = "mounted" /\ mountedRef /\ timers # {}

\* C16: while the hook is live and real-time is active, a tick runs
\* refresh() exactly once: when its generators return it adds exactly 1 to
\* updateCount and replaces the sequences.  Under fair ticking with
\* generators that return, from a state with updateCount n the next event
\* is a tick that leaves updateCount at n + 1, unless the interval is
\* stopped, the hook is torn down, a generator raises or a call of the user
\* comes first (after which the same holds of the state it leaves); the
\* run's horizon of MaxEvents events aside.
C16_TicksRefresh ==
    /\ [][ (lastOp'.op = "tick" /\ Ticking)
              => /\ events' = events + 1
                 /\ IF lastOp'.ok
                      THEN /\ updateCount' = updateCount + 1
                           /\ Sequences4' = Generated(lastOp'.seed)
                      ELSE updateCount' = updateCount ]_vars
    /\ \A e \in 0..(MaxEvents - 1) : \A n \in 0..(e + 1) :
          (Ticking /\ updateCount = n /\ events = e)
              ~> \/ ~Ticking
                 \/ /\ events = e + 1
                    /\ \/ updateCount = n + 1
                       \/ lastOp.op # "tick"
                       \/ ~lastOp.ok

\* Two ticks in a row refreshed a live hook that the mount had populated.
C16_Witness ==
    /\ lastOp.op = "tick" /\ lastOp.ok /\ Ticking
    /\ events = 2 /\ updateCount = 3
    /\ now = StartTime + 2 * DefaultUpdateInterval

\* The text a field value is emitted as, said without the code: `out` is
\* `chars` with every double quote doubled when each character of `chars`
\* stands in `out` after as many extra characters as there are double
\* quotes before it, each double quote is followed by one more, and `out`
\* has nothing else.
QuotesBefore(chars, i) ==
    Cardinality({j \in 1..(i - 1) : chars[j] = Quote})
IsDoubled(chars, out) ==
    /\ Len(out) = Len(chars) + QuotesBefore(chars, Len(chars) + 1)
    /\ \A i \in 1..Len(chars) :
            /\ out[i + QuotesBefore(chars, i)] = chars[i]
            /\ chars[i] = Quote => out[i + QuotesBefore(chars, i) + 1] = Quote
IsWrapped(chars, out) ==
    /\ Len(out) >= 2
    /\ out[1] = Quote /\ out[Len(out)] = Quote
    /\ IsDoubled(chars, SubSeq(out, 2, Len(out) - 1))
HasCommaOrQuote(value) ==
    /\ value[1] = "string"
    /\ \E i \in 1..Len(value[2]) : value[2][i] \in {Comma, Quote}
IsEmitted(value, out) ==
    IF HasCommaOrQuote(value) THEN IsWrapped(value[2], out)
    ELSE out = ElementText(value)

\* The fields of a file: of the row of record i, the text between the
\* separating commas that the lengths of the emitted values place.
ExportedContent == downloads[1].content
ExportedRecords == exportArg.records
ExportedHeaders == ObjectKeys(ExportedRecords[1])
HeaderText == join(ExportedHeaders, Comma)
EmittedLen(value) ==
    IF HasCommaOrQuote(value)
    THEN Len(value[2]) + QuotesBefore(value[2], Len(value[2]) + 1) + 2
    ELSE Len(ElementText(value))
FieldValue(i, h) == Property(ExportedRecords[i], ExportedHeaders[h])
RECURSIVE FieldStart(_, _)
FieldStart(i, h) ==
    IF h > 1 THEN FieldStart(i, h - 1) + EmittedLen(FieldValue(i, h - 1)) + 1
    ELSE IF i > 1
    THEN FieldStart(i - 1, Len(ExportedHeaders))
            + EmittedLen(FieldValue(i - 1, Len(ExportedHeaders))) + 1
    ELSE Len(HeaderText) + 2
FieldText(i, h) ==
    SubSeq(ExportedContent, FieldStart(i, h),
           FieldStart(i, h) + EmittedLen(FieldValue(i, h)) - 1)
ExportedCSV ==
    /\ lastOp.op = "exportToCSV"
    /\ exportArg.given
    /\ Len(exportArg.records) > 0

\* C17: in the file exportToCSV produces, every field value that contains a
\* comma or a double quote is emitted wrapped in double quotes with each
\* embedded double quote doubled, and every other value is emitted bare:
\* [{a: 1, b: "x,y"}, {a: 2, b: "z"}] yields the lines a,b then 1,"x,y"
\* then 2,z.
C17_CSVQuoting ==
    ExportedCSV =>
        /\ Len(downloads) = 1
        /\ Len(ExportedContent)
                = FieldStart(Len(ExportedRecords), Len(ExportedHeaders))
                    + EmittedLen(FieldValue(Len(ExportedRecords),
                                            Len(ExportedHeaders))) - 1
        /\ SubSeq(ExportedContent, 1, Len(HeaderText)) = HeaderText
        /\ \A i \in 1..Len(ExportedRecords) :
                \A h \in 1..Len(ExportedHeaders) :
                    /\ IsEmitted(FieldValue(i, h), FieldText(i, h))
                    /\ ExportedContent[FieldStart(i, h) - 1]
                            = IF h = 1 THEN LineBreak ELSE Comma
        /\ ExportedRecords = ExampleRecords =>
                ExportedContent =
                    <<"a", ",", "b", "\n",
                      "1", ",", "\"", "x", ",", "y", "\"", "\n",
                      "2", ",", "z">>

C17_Witness ==
    /\ ExportedCSV
    /\ ExportedRecords =
            << << << <<"a">>, Number(12) >>, << <<"b">>, Str(<<Quote>>) >> >>,
               << << <<"a">>, Number(12) >>, << <<"b">>, Str(<<"x">>) >> >> >>
    /\ ExportedContent =
            <<"a", ",", "b", "\n",
              "1", "2", ",", "\"", "\"", "\"", "\"", "\n",
              "1", "2", ",", "x">>

\* The lines of a text: its pieces between line breaks.
RECURSIVE SplitLines(_)
SplitLines(chars) ==
    IF \A i \in 1..Len(chars) : chars[i] # LineBreak THEN <<chars>>
    ELSE LET k == CHOOSE i \in 1..Len(chars) :
                    /\ chars[i] = LineBreak
                    /\ \A j \in 1..(i - 1) : chars[j] # LineBreak
         IN  <<SubSeq(chars, 1, k - 1)>>
                \o SplitLines(SubSeq(chars, k + 1, Len(chars)))

\* C18: exportToCSV given an empty or missing record list produces no file;
\* given n >= 1 records it produces exactly one file of n + 1 lines whose
\* first line is the first record's field names in that record's field
\* order and whose line i + 1 lists the values of record i for exactly
\* those fields in header order.
C18_Original ==
    lastOp.op = "exportToCSV" =>
        IF ~exportArg.given \/ Len(exportArg.records) = 0
        THEN downloads = << >>
        ELSE /\ Len(downloads) = 1
             /\ LET lines == SplitLines(ExportedContent)
                IN  /\ Len(lines) = Len(ExportedRecords) + 1
                    /\ lines[1] = HeaderText
                    /\ \A i \in 1..Len(ExportedRecords) :
                            lines[i + 1] =
                                join([h \in 1..Len(ExportedHeaders) |->
                                        ElementText(csvField(FieldValue(i, h)))],
                                     Comma)

\* The four sequences the Dashboard passes to exportDashboardData and the
\* suffix of the file of each.
PassedSequences == << salesData, trafficData, productData, kpiData >>
FileSuffixes == << "-sales", "-traffic", "-products", "-kpis" >>
NonEmptySequences == {k \in 1..4 : Len(PassedSequences[k]) > 0}
FilesOf(k) ==
    {f \in 1..Len(downloads) :
        /\ Len(downloads[f].filename) = 4
        /\ downloads[f].filename[3] = FileSuffixes[k]}

\* C19: exportDashboardData with format 'csv' never merges sequences: it
\* produces one separate file for each non-empty sequence among sales,
\* traffic, products and kpis and no file for an empty one (so a cleared
\* snapshot produces no file); with any other format it produces exactly
\* one JSON file whose summary counts equal the lengths of the kpis, sales,
\* traffic and product sequences passed in.
C19_ExportDashboard ==
    lastOp.op = "exportDashboardData" =>
        IF lastOp.name = "csv"
        THEN /\ Len(downloads) = Cardinality(NonEmptySequences)
             /\ \A k \in 1..4 :
                    IF k \in NonEmptySequences
                    THEN \E f \in 1..Len(downloads) :
                            /\ FilesOf(k) = {f}
                            /\ downloads[f].mimeType = "text/csv"
                            /\ downloads[f].filename[4] = ".csv"
                            /\ Len(SplitLines(downloads[f].content))
                                    = Len(PassedSequences[k]) + 1
                    ELSE FilesOf(k) = {}
        ELSE /\ Len(downloads) = 1
             /\ downloads[1].mimeType = "application/json"
             /\ downloads[1].filename[Len(downloads[1].filename)] = ".json"
             /\ IsJSON(downloads[1].content)
             /\ LET summary == JSONparse(downloads[1].content).summary
                IN  /\ summary.totalKPIs = Len(kpiData)
                    /\ summary.dataPoints.sales = Len(salesData)
                    /\ summary.dataPoints.traffic = Len(trafficData)
                    /\ summary.dataPoints.products = Len(productData)

C19_Witness ==
    /\ lastOp.op = "exportDashboardData"
    /\ lastOp.name = "csv"
    /\ Len(salesData) = 0
    /\ Len(trafficData) = HoursPerDay
    /\ Len(downloads) = 3
    /\ downloads[1].filename[3] = "-traffic"

\* C21: with enablePersistence = false the hook never touches the storage
\* slot: the mount does not read it, a refresh does not write it and
\* clearData does not remove it, so the slot holds after any step what it
\* held before.
C21_NoPersistenceFrame ==
    [][~enablePersistence =>
            /\ storage' = storage
            /\ saved' = saved
            /\ ~lastOp'.loaded]_vars

C21_Witness ==
    /\ ~enablePersistence
    /\ storageMode = "ok"
    /\ storage = Item(JSONstringify(EarlierSnapshot(DefaultUpdateInterval)))
    /\ lastOp.op = "refresh" /\ lastOp.ok
    /\ phase = "mounted"
    /\ updateCount = 2
    /\ salesData # EarlierSnapshot(DefaultUpdateInterval).sales

\* The calendar month after the one named `label`.
MonthAfter(label) ==
    LET k == CHOOSE i \in 1..12 : monthNames[i] = label
    IN  monthNames[(k % 12) + 1]
IsMonthName(label) == \E i \in 1..12 : monthNames[i] = label

\* C22: generateSalesData(months) returns exactly `months` records whose
\* month labels are all calendar month names, running consecutively
\* (cyclically, Jan after Dec) and ending at the current month, for every
\* current month 0..11 and every month count >= 1.
C22_Original ==
    (call.fn = "generateSalesData" /\ call.done) =>
        /\ Len(call.result) = call.months
        /\ \A i \in 1..Len(call.result) : IsMonthName(call.result[i].month)
        /\ call.result[Len(call.result)].month = monthNames[currentMonth + 1]
        /\ \A i \in 1..(Len(call.result) - 1) :
                call.result[i + 1].month = MonthAfter(call.result[i].month)

\* The sum of a field over a sequence, and the equality of two fractions.
RECURSIVE FieldSum(_, _)
FieldSum(records, field) ==
    IF Len(records) = 0 THEN 0
    ELSE Head(records)[field] + FieldSum(Tail(records), field)
RECURSIVE TenthsSum(_, _)
TenthsSum(records, field) ==
    IF Len(records) = 0 THEN 0
    ELSE Head(records)[field][2] + TenthsSum(Tail(records), field)
IsQuotient(ratio, sum, length) ==
    IF length = 0 THEN ratio[2] = 0
    ELSE ratio[2] * length = sum * ratio[3]
Summarised == call.fn = "createSummaryReport" /\ call.done

\* C23: createSummaryReport returns totalRevenue, totalOrders,
\* totalVisitors, totalPageViews and totalValue equal to the sums of those
\* fields over the sales, traffic and product sequences, averages equal to
\* sum divided by sequence length (0 for an empty sequence),
\* totalCategories equal to the product count, and topCategory equal to a
\* record of the product sequence whose value is the maximum (the earliest
\* such record on ties) for every non-empty product sequence; the KPI
\* sequence is passed through unchanged.
C23_Original ==
    Summarised =>
        LET data == call.dashboardData
            report == call.result
        IN  /\ report.sales.totalRevenue = FieldSum(data.salesData, "revenue")
            /\ report.sales.totalOrders = FieldSum(data.salesData, "orders")
            /\ report.traffic.totalVisitors
                    = FieldSum(data.trafficData, "visitors")
            /\ report.traffic.totalPageViews
                    = FieldSum(data.trafficData, "pageViews")
            /\ report.products.totalValue
                    = FieldSum(data.productData, "value")
            /\ IsQuotient(report.sales.avgRevenue,
                          FieldSum(data.salesData, "revenue"),
                          Len(data.salesData))
            /\ IsQuotient(report.traffic.avgBounceRate,
                          TenthsSum(data.trafficData, "bounceRate"),
                          Len(data.trafficData))
            /\ report.products.totalCategories = Len(data.productData)
            /\ Len(data.productData) > 0 =>
                    \E k \in 1..Len(data.productData) :
                        /\ report.products.topCategory = data.productData[k]
                        /\ \A j \in 1..Len(data.productData) :
                                data.productData[j].value
                                    <= data.productData[k].value
                        /\ \A j \in 1..(k - 1) :
                                data.productData[j].value
                                    < data.productData[k].value
            /\ report.kpis = data.kpis

\* C24: for every configuration (autoStart true or false), once the mount
\* has completed and no refresh is executing, isLoading is false, also when
\* the snapshot was adopted from the storage instead of freshly generated.
\* A handler runs to its end within one step, so no refresh is executing
\* in any state.
C24_Original == phase = "mounted" => ~isLoading

\* The effects have settled: the last render saw the isRealTime the hook
\* holds, so no run of the real-time effect is pending.
Settled == phase = "mounted" /\ renderedIsRealTime = isRealTime

\* C25: whenever the hook is live and its effects have settled, isRealTime
\* is true exactly when an interval is active, after any sequence of start,
\* stop, toggle, refresh, clear and updateDataset calls and ticks, for both
\* values of autoStart.
C25_RealTimeMatchesTimer == Settled => (isRealTime <=> timers # {})

\* The hook was mounted with autoStart off and start() switched it to
\* real time; the effect of the render that followed has run.
C25_Witness ==
    /\ Settled
    /\ ~autoStart /\ isRealTime /\ timers # {}
    /\ lastOp.op = "render" /\ events >= 1

\* The hook is live, persists, and its storage works.
LivePersisting ==
    enablePersistence /\ storageMode = "ok" /\ phase = "mounted"

\* C26: with enablePersistence = true and a working storage, after any
\* sequence of refresh, clear, updateDataset, start and stop calls and ticks
\* on a live hook, the slot is absent, or still holds what it held when the
\* page opened, or holds exactly the four sequences of the most recent
\* successful refresh: a successful refresh writes what it produced, clear
\* removes the slot, and nothing else (a failed refresh, updateDataset,
\* start, stop, toggle, a render) changes it.
C26_SlotContent ==
    /\ [](LivePersisting =>
            \/ storage = Absent
            \/ saved = NoSnapshot
            \/ /\ storage = Item(JSONstringify(saved))
               /\ \E seed \in Seeds :
                    << saved.sales, saved.traffic, saved.products,
                       saved.kpis >> = Generated(seed))
    /\ [][LivePersisting =>
            IF lastOp'.op \in GeneratingOps /\ lastOp'.ok
            THEN /\ Sequences4' = Generated(lastOp'.seed)
                 /\ storage' = Item(JSONstringify(
                        [ sales |-> salesData', traffic |-> trafficData',
                          products |-> productData', kpis |-> kpiData',
                          lastUpdated |-> toISOString(now') ]))
            ELSE IF lastOp'.op = "clear" THEN storage' = Absent
            ELSE storage' = storage]_vars

\* updateDataset replaced the sales of a live hook whose slot holds the
\* snapshot of its last refresh: the slot still holds that snapshot.
C26_Witness ==
    /\ LivePersisting
    /\ lastOp.op = "updateDataset" /\ lastOp.name = "sales"
    /\ Len(salesData) = 1
    /\ saved # NoSnapshot
    /\ storage = Item(JSONstringify(saved))
    /\ Len(saved.sales) = DefaultMonths

\* The step is a successful refresh of the live hook: refresh() or a tick
\* on the mounted component, or the refresh of a mount that adopted
\* nothing, whose generators returned.
SuccessfulLiveRefresh ==
    /\ lastOp'.ok
    /\ \/ lastOp'.op \in GeneratingOps /\ phase = "mounted"
       \/ lastOp'.op = "mount" /\ ~lastOp'.loaded

\* C27 as stated: updateCount is the number of successful live refreshes
\* since the first render or since the most recent clear(), whichever is
\* later: it starts at 0, a successful live refresh adds 1, every clear()
\* resets it to 0, and no other step changes it.
C27_Original ==
    [][ /\ phase = "rendered" => updateCount = 0
        /\ IF SuccessfulLiveRefresh THEN updateCount' = updateCount + 1
           ELSE IF lastOp'.op = "clear" THEN updateCount' = 0
           ELSE updateCount' = updateCount ]_vars

\* C27: updateCount is the number of successful live refreshes since the
\* first render or since the most recent clear() on the live hook,
\* whichever is later: it starts at 0, a successful live refresh adds 1, a
\* clear() on the live hook resets it to 0, and no other step changes it;
\* adopting a persisted snapshot, a failed refresh, updateDataset, start,
\* stop, toggle and every call after the teardown leave it unchanged.
C27_UpdateCount ==
    [][ /\ phase = "rendered" => updateCount = 0
        /\ IF SuccessfulLiveRefresh THEN updateCount' = updateCount + 1
           ELSE IF lastOp'.op = "clear" /\ phase = "mounted"
           THEN updateCount' = 0
           ELSE updateCount' = updateCount ]_vars

\* Two events after the mount the count is 1: a refresh succeeded after a
\* clear, a failed refresh or an adopted snapshot.
C27_Witness ==
    /\ phase = "mounted"
    /\ lastOp.op \in GeneratingOps /\ lastOp.ok
    /\ events = 2
    /\ updateCount = 1

\* C28: clear() changes only the four sequences, updateCount and the
\* persisted slot: it leaves isRealTime, the active interval, lastUpdated,
\* isLoading and error unchanged, so when real time is active the next tick
\* after clear(), its generators returning, repopulates all four sequences
\* and sets updateCount to 1.
C28_ClearFrame ==
    [][ /\ lastOp'.op = "clear"
            => UNCHANGED << isRealTime, renderedIsRealTime, timers,
                            intervalRef, lastUpdated, isLoading, error >>
        /\ (lastOp.op = "clear" /\ phase = "mounted" /\ isRealTime)
            => /\ timers # {}
               /\ (lastOp'.op = "tick" /\ lastOp'.ok)
                    => /\ Sequences4' = Generated(lastOp'.seed)
                       /\ \A i \in 1..4 : Len(Sequences4'[i]) > 0
                       /\ updateCount' = 1 ]_vars

\* clear() emptied a live hook in real time that had data and a persisted
\* snapshot; its interval is still active and a tick can follow.
C28_Witness ==
    /\ lastOp.op = "clear" /\ phase = "mounted"
    /\ isRealTime /\ lastOp.timerBefore /\ timers = {intervalRef}
    /\ lastOp.slotBefore /\ storage = Absent
    /\ Sequences4 = << << >>, << >>, << >>, << >> >>
    /\ updateCount = 0 /\ events = 1
    /\ ~isLoading


============================================================================
